---- MODULE Spec2Model ----
(***************************************************************************)
(* A model of the Haze phonetic transformation engine                      *)
(* (src/Haze/phonetic_fuzzer.py, class Hazer).                             *)
(*                                                                         *)
(* Text is a sequence of one-character strings.  A vocabulary is a         *)
(* sequence of words, a word being a sequence of characters.  The engine   *)
(* is single-threaded: one top-level call runs at a time, and pc is the    *)
(* position of that call.                                                  *)
(***************************************************************************)
EXTENDS Integers, Sequences, FiniteSets, TLC

(***************************************************************************)
(* Characters and the str methods the code applies to them.                *)
(***************************************************************************)
\* The letters of the model, lowercase and uppercase at the same index: the
\* ASCII letters and the accented vowels that occur in the source's word
\* lists and in the substitutions of rehaze.
LowerLetters ==
    <<"a","b","c","d","e","f","g","h","i","j","k","l","m",
      "n","o","p","q","r","s","t","u","v","w","x","y","z",
      "á","é","í","ó","ú">>

UpperLetters ==
    <<"A","B","C","D","E","F","G","H","I","J","K","L","M",
      "N","O","P","Q","R","S","T","U","V","W","X","Y","Z",
      "Á","É","Í","Ó","Ú">>

Digits == {"0","1","2","3","4","5","6","7","8","9"}

RangeOf(s) == {s[k] : k \in 1..Len(s)}

\* str.isalpha on one character
isalpha_char(c) == c \in RangeOf(LowerLetters) \cup RangeOf(UpperLetters)

\* the regular-expression class \w on one character
is_word_char(c) == isalpha_char(c) \/ c \in Digits \/ c = "_"

\* str.isspace on one character
is_space_char(c) == c \in {" ", "\t"}

\* str.lower on one character
lower_char(c) ==
    IF c \in RangeOf(UpperLetters)
    THEN LowerLetters[CHOOSE k \in 1..Len(UpperLetters) : UpperLetters[k] = c]
    ELSE c

\* str.lower
lower(s) == [k \in 1..Len(s) |-> lower_char(s[k])]

\* str.upper on one character
upper_char(c) ==
    IF c \in RangeOf(LowerLetters)
    THEN UpperLetters[CHOOSE k \in 1..Len(LowerLetters) : LowerLetters[k] = c]
    ELSE c

\* str.upper
upper(s) == [k \in 1..Len(s) |-> upper_char(s[k])]

\* str.isalpha: non-empty and every character alphabetic
isalpha(s) == Len(s) >= 1 /\ \A k \in 1..Len(s) : isalpha_char(s[k])

RECURSIVE lstrip(_)
lstrip(s) ==
    IF s = <<>> THEN <<>>
    ELSE IF is_space_char(Head(s)) THEN lstrip(Tail(s)) ELSE s

RECURSIVE rstrip(_)
rstrip(s) ==
    IF s = <<>> THEN <<>>
    ELSE IF is_space_char(s[Len(s)]) THEN rstrip(SubSeq(s, 1, Len(s) - 1)) ELSE s

\* str.strip
strip(s) == rstrip(lstrip(s))

RECURSIVE take_token(_)
take_token(s) ==
    IF s = <<>> \/ is_space_char(Head(s)) THEN <<>>
    ELSE <<Head(s)>> \o take_token(Tail(s))

\* line.split() followed by parts[0]: the first whitespace-delimited token,
\* <<>> when the line has none (parts is empty)
first_part(line) == take_token(lstrip(line))

(***************************************************************************)
(* Language names.  The tiers look a language up by language.lower(); the  *)
(* cache is keyed by the name as given.                                    *)
(***************************************************************************)
lower_name(language) ==
    CASE language = "Dutch" -> "dutch"
      [] language = "English" -> "english"
      [] language = "Spanish" -> "spanish"
      [] language = "French" -> "french"
      [] OTHER -> language

\* keys of freq_urls
freq_urls ==
    {"english", "spanish", "french", "german", "italian", "portuguese", "dutch"}

\* keys of urls
urls == {"english", "spanish", "french", "german", "italian", "portuguese"}

\* sample_words: the embedded fallback lists.  Each list is an excerpt of
\* the source's list, in source order (english: lines 211, 212, 239;
\* spanish: 459, 499, 575; french: 664, 690, 839; german: 861; italian: 1055;
\* portuguese: 1262).
sample_words ==
    [english    |-> << <<"s","k","y">>, <<"s","u","n">>, <<"d","o","g">> >>,
     spanish    |-> << <<"s","o","l">>, <<"p","a","n">>, <<"s","o","l">> >>,
     french     |-> << <<"e","a","u">>, <<"a","m","i">>,
                        <<"b","o","n"," ","m","a","r","c","h","é">> >>,
     german     |-> << <<"h","a","l","l","o">> >>,
     italian    |-> << <<"c","i","a","o">> >>,
     portuguese |-> << <<"s","o","l">> >>]

(***************************************************************************)
(* The network.  A fetch either fails (connection error, timeout, HTTP     *)
(* error status) or returns a body, modelled as its lines.                 *)
(***************************************************************************)
FetchFailed == [ok |-> FALSE, lines |-> <<>>]

\* a body with a count column, a capitalised entry and a non-alphabetic one
BodyWords ==
    [ok |-> TRUE,
     lines |-> << <<"a","i"," ","7">>, <<"N","o">>, <<"x","1">> >>]

\* a body without a single line
BodyBlank == [ok |-> TRUE, lines |-> << <<>> >>]

Responses == {FetchFailed, BodyWords, BodyBlank}

(***************************************************************************)
(* Word List Provider: the three tiers and load_word_list.                 *)
(***************************************************************************)
\* the longest entry the network tiers accept
MaxWordLen == 25

RECURSIVE frequency_words(_)
\* the loop of _try_frequency_lists over the lines of the body
frequency_words(lines) ==
    IF lines = <<>> THEN <<>>
    ELSE LET parts0 == first_part(Head(lines))
             word == lower(strip(parts0))
             rest == frequency_words(Tail(lines))
         IN IF parts0 # <<>> /\ 1 <= Len(word) /\ Len(word) <= MaxWordLen
                /\ isalpha(word)
            THEN <<word>> \o rest
            ELSE rest

RECURSIVE online_words(_)
\* the list comprehension of _try_online_wordlist over the lines of the body
online_words(lines) ==
    IF lines = <<>> THEN <<>>
    ELSE LET w == strip(Head(lines))
             rest == online_words(Tail(lines))
         IN IF w # <<>> /\ 1 <= Len(w) /\ Len(w) <= MaxWordLen /\ isalpha(w)
            THEN <<lower(w)>> \o rest
            ELSE rest

\* _try_frequency_lists: resp is what the network answers if it is asked.
\* fetched tells whether requests.get was called.
_try_frequency_lists(language, resp) ==
    LET known == lower_name(language) \in freq_urls
    IN [fetched |-> known,
        words   |-> IF known /\ resp.ok THEN frequency_words(resp.lines)
                    ELSE <<>>]

\* _try_online_wordlist
_try_online_wordlist(language, resp) ==
    LET known == lower_name(language) \in urls
    IN [fetched |-> known,
        words   |-> IF known /\ resp.ok THEN online_words(resp.lines)
                    ELSE <<>>]

\* a faulty variant of _get_builtin_wordlist, which returns an empty list
\* where the code raises: return sample_words.get(language.lower(), [])
_get_builtin_wordlist_or_empty(language) ==
    LET key == lower_name(language)
    IN [raised |-> FALSE,
        words |-> IF key \in DOMAIN sample_words THEN sample_words[key] ELSE <<>>]

\* a faulty variant of _get_builtin_wordlist, which holds the English list
\* alone
_get_builtin_wordlist_english(language) ==
    IF lower_name(language) = "english"
    THEN [raised |-> FALSE, words |-> sample_words.english]
    ELSE [raised |-> TRUE, words |-> <<>>]

\* _get_builtin_wordlist: raises ValueError for a language it does not hold
_get_builtin_wordlist(language) ==
    LET key == lower_name(language)
    IN IF key \notin DOMAIN sample_words
       THEN [raised |-> TRUE, words |-> <<>>]
       ELSE [raised |-> FALSE, words |-> sample_words[key]]

\* a faulty variant of cached, which never finds the language
cached_never(cache, language) == FALSE

\* if language in self.word_lists
cached(cache, language) == language \in DOMAIN cache

\* a faulty variant of cache_put, which drops the other entries:
\* self.word_lists = {language: words}
cache_put_alone(cache, language, words) == [l \in {language} |-> words]

\* self.word_lists[language] = words
cache_put(cache, language, words) ==
    [l \in DOMAIN cache \cup {language} |->
        IF l = language THEN words ELSE cache[l]]

\* One attempt of a tier, as the log of a call keeps it.
Attempt(tier, fetched, produced) ==
    [tier |-> tier, fetched |-> fetched, produced |-> produced]

\* load_word_list(language) on the cache `cache`; r1 and r2 are the answers
\* of the network to the frequency fetch and to the general-wordlist fetch.
\* The result holds the cache after the call, whether the call raised, the
\* vocabulary returned, whether the cache answered, and the tiers attempted
\* in order.
load_word_list(cache, language, r1, r2) ==
    IF cached(cache, language)
    THEN [word_lists |-> cache, raised |-> FALSE, words |-> cache[language],
          hit |-> TRUE, tiers |-> <<>>]
    ELSE
      LET f  == _try_frequency_lists(language, r1)
          a1 == Attempt("frequency", f.fetched, f.words # <<>>)
      IN IF f.words # <<>>
         THEN [word_lists |-> cache_put(cache, language, f.words),
               raised |-> FALSE, words |-> f.words,
               hit |-> FALSE, tiers |-> <<a1>>]
         ELSE
           LET o  == _try_online_wordlist(language, r2)
               a2 == Attempt("online", o.fetched, o.words # <<>>)
           IN IF o.words # <<>>
              THEN [word_lists |-> cache_put(cache, language, o.words),
                    raised |-> FALSE, words |-> o.words,
                    hit |-> FALSE, tiers |-> <<a1, a2>>]
              ELSE
                LET b  == _get_builtin_wordlist(language)
                    a3 == Attempt("builtin", FALSE, ~b.raised)
                IN [word_lists |-> cache, raised |-> b.raised,
                    words |-> b.words,
                    hit |-> FALSE, tiers |-> <<a1, a2, a3>>]

(***************************************************************************)
(* Text functions: tokenization, str.replace, the word-boundary            *)
(* substitutions of rehaze, and difflib.SequenceMatcher.ratio.             *)
(***************************************************************************)
RECURSIVE take_run(_, _)
\* the longest prefix of s whose characters are all word characters
\* (isword = TRUE) or all non-word characters (isword = FALSE)
take_run(s, isword) ==
    IF s = <<>> \/ is_word_char(Head(s)) # isword THEN <<>>
    ELSE <<Head(s)>> \o take_run(Tail(s), isword)

RECURSIVE findall_words(_)
\* a faulty variant of findall_tokens, which drops the runs of non-word
\* characters: re.findall(r"\b\w+\b", sentence)
findall_words(s) ==
    IF s = <<>> THEN <<>>
    ELSE LET run == take_run(s, is_word_char(Head(s)))
         IN (IF is_word_char(Head(s)) THEN <<run>> ELSE <<>>)
            \o findall_words(SubSeq(s, Len(run) + 1, Len(s)))

RECURSIVE findall_tokens(_)
\* re.findall(r"\b\w+\b|\W+", sentence): the maximal runs of word characters
\* and the maximal runs of other characters, in order
findall_tokens(s) ==
    IF s = <<>> THEN <<>>
    ELSE LET run == take_run(s, is_word_char(Head(s)))
         IN <<run>> \o findall_tokens(SubSeq(s, Len(run) + 1, Len(s)))

\* re.match(r"\w+", item)
is_word_token(item) == item # <<>> /\ is_word_char(Head(item))

RECURSIVE join_tokens(_)
\* "".join(transformed_words)
join_tokens(ts) == IF ts = <<>> THEN <<>> ELSE Head(ts) \o join_tokens(Tail(ts))

\* s.startswith(prefix)
startswith(s, prefix) ==
    Len(prefix) <= Len(s) /\ SubSeq(s, 1, Len(prefix)) = prefix

RECURSIVE replace(_, _, _)
\* s.replace(old, new) for a non-empty old: leftmost non-overlapping
replace(s, old, new) ==
    IF s = <<>> THEN <<>>
    ELSE IF startswith(s, old)
         THEN new \o replace(SubSeq(s, Len(old) + 1, Len(s)), old, new)
         ELSE <<Head(s)>> \o replace(Tail(s), old, new)

RECURSIVE sub_word_from(_, _, _, _)
\* re.sub(r"\b<pat>\b", rep, text) from position pos on; pat is made of word
\* characters, so \b before it asks for a non-word character (or the start)
\* to its left and \b after it for a non-word character (or the end) to its
\* right
sub_word_from(pat, rep, text, pos) ==
    IF pos > Len(text) THEN <<>>
    ELSE LET stop == pos + Len(pat) - 1
             here == /\ stop <= Len(text)
                     /\ SubSeq(text, pos, stop) = pat
                     /\ (pos = 1 \/ ~is_word_char(text[pos - 1]))
                     /\ (stop = Len(text) \/ ~is_word_char(text[stop + 1]))
         IN IF here THEN rep \o sub_word_from(pat, rep, text, stop + 1)
            ELSE <<text[pos]>> \o sub_word_from(pat, rep, text, pos + 1)

sub_word(pat, rep, text) == sub_word_from(pat, rep, text, 1)

\* the substitutions rehaze applies to every output, in the code's order.
\* (r"\byou\b(?![a-z])": after \b a lowercase letter cannot follow, so the
\* lookahead never rejects.)
cleanup(text) ==
    LET t1 == sub_word(<<"y","a","o">>, <<"y">>, text)
        t2 == sub_word(<<"n","o","o">>, <<"n","o">>, t1)
        t3 == sub_word(<<"y","o","u">>, <<"y">>, t2)
        t4 == sub_word(<<"d","e","e">>, <<"d","e">>, t3)
        t5 == sub_word(<<"a","i","i">>, <<"a","h","í">>, t4)
        t6 == sub_word(<<"a","i","i">>, <<"a","h","í">>, t5)
        t7 == sub_word(<<"m","a","u","i">>, <<"m","i">>, t6)
    IN sub_word(<<"a","i">>, <<"a">>, t7)

RECURSIVE match_len(_, _, _, _)
\* the length of the longest common run of a from i and b from j
match_len(a, b, i, j) ==
    IF i > Len(a) \/ j > Len(b) \/ a[i] # b[j] THEN 0
    ELSE 1 + match_len(a, b, i + 1, j + 1)

\* SequenceMatcher.find_longest_match over the whole of a and b: the longest
\* matching block, the one starting earliest in a and then earliest in b
\* (no junk: isjunk is None, and autojunk needs 200 elements)
find_longest_match(a, b) ==
    LET pairs == (1..Len(a)) \X (1..Len(b))
        size == IF pairs = {} THEN 0
                ELSE CHOOSE k \in 0..Len(a) :
                        /\ \E p \in pairs : match_len(a, b, p[1], p[2]) = k
                        /\ \A p \in pairs : match_len(a, b, p[1], p[2]) <= k
    IN IF size = 0 THEN [i |-> 1, j |-> 1, size |-> 0]
       ELSE LET i == CHOOSE x \in 1..Len(a) :
                        /\ \E y \in 1..Len(b) : match_len(a, b, x, y) = size
                        /\ \A x2 \in 1..(x - 1) : \A y \in 1..Len(b) :
                               match_len(a, b, x2, y) # size
                j == CHOOSE y \in 1..Len(b) :
                        /\ match_len(a, b, i, y) = size
                        /\ \A y2 \in 1..(y - 1) : match_len(a, b, i, y2) # size
            IN [i |-> i, j |-> j, size |-> size]

RECURSIVE matching_size(_, _)
\* the total size of SequenceMatcher.get_matching_blocks: the longest match,
\* then the same to its left and to its right
matching_size(a, b) ==
    LET m == find_longest_match(a, b)
    IN IF m.size = 0 THEN 0
       ELSE m.size
            + matching_size(SubSeq(a, 1, m.i - 1), SubSeq(b, 1, m.j - 1))
            + matching_size(SubSeq(a, m.i + m.size, Len(a)),
                            SubSeq(b, m.j + m.size, Len(b)))

(***************************************************************************)
(* Real numbers are exact fractions [num, den] with den > 0.               *)
(***************************************************************************)
RECURSIVE gcd(_, _)
gcd(x, y) == IF y = 0 THEN x ELSE gcd(y, x % y)

abs(x) == IF x < 0 THEN -x ELSE x

Frac(n, d) ==
    LET g == gcd(abs(n), d)
    IN [num |-> n \div g, den |-> d \div g]

Zero == Frac(0, 1)

One == Frac(1, 1)

frac_add(x, y) == Frac(x.num * y.den + y.num * x.den, x.den * y.den)

frac_sub(x, y) == Frac(x.num * y.den - y.num * x.den, x.den * y.den)

frac_mul(x, y) == Frac(x.num * y.num, x.den * y.den)

frac_lt(x, y) == x.num * y.den < y.num * x.den

\* a faulty variant of frac_ge, which is strict: similarity > similarity_threshold
frac_gt(x, y) == frac_lt(y, x)

frac_ge(x, y) == ~frac_lt(x, y)

\* difflib.SequenceMatcher(None, a, b).ratio(): 2.0 * matches / length, and
\* 1.0 when both are empty
ratio(a, b) ==
    IF Len(a) + Len(b) = 0 THEN One
    ELSE Frac(2 * matching_size(a, b), Len(a) + Len(b))

(***************************************************************************)
(* Phonetic Encoder, Similarity Scorer and Nearest-Match Finder.           *)
(***************************************************************************)
\* the dictionary `mapping` of soundex; "" for a character it does not hold
soundex_mapping(c) ==
    CASE c \in {"B", "F", "P", "V"} -> "1"
      [] c \in {"C", "G", "J", "K", "Q", "S", "X", "Z"} -> "2"
      [] c \in {"D", "T"} -> "3"
      [] c = "L" -> "4"
      [] c \in {"M", "N"} -> "5"
      [] c = "R" -> "6"
      [] OTHER -> ""

RECURSIVE soundex_loop(_, _)
\* the loop of soundex over word[1:], soundex_code being the code so far
soundex_loop(rest, soundex_code) ==
    IF rest = <<>> THEN soundex_code
    ELSE LET code == soundex_mapping(Head(rest))
         IN IF code # "" /\ code # soundex_code[Len(soundex_code)]
            THEN soundex_loop(Tail(rest), Append(soundex_code, code))
            ELSE soundex_loop(Tail(rest), soundex_code)

\* a faulty variant of soundex, which does not pad the code:
\* soundex_code[:4]
soundex_unpadded(word) ==
    IF word = <<>> THEN <<"0", "0", "0", "0">>
    ELSE LET soundex_code == soundex_loop(Tail(upper(word)), <<Head(upper(word))>>)
         IN SubSeq(soundex_code, 1,
                   IF Len(soundex_code) < 4 THEN Len(soundex_code) ELSE 4)

soundex(word) ==
    IF word = <<>> THEN <<"0", "0", "0", "0">>
    ELSE LET w == upper(word)
             soundex_code == soundex_loop(Tail(w), <<Head(w)>>)
         IN SubSeq(soundex_code \o <<"0", "0", "0", "0">>, 1, 4)

RECURSIVE metaphone_loop(_, _, _)
\* the loop of metaphone_simple; prev_char is "" before the first character
metaphone_loop(rest, metaphone, prev_char) ==
    IF rest = <<>> THEN metaphone
    ELSE LET char == Head(rest)
             next == IF char \in {"A", "E", "I", "O", "U"}
                     THEN (IF metaphone = <<>> THEN Append(metaphone, char)
                           ELSE metaphone)
                     ELSE (IF char # prev_char THEN Append(metaphone, char)
                           ELSE metaphone)
         IN metaphone_loop(Tail(rest), next, char)

metaphone_simple(word) ==
    IF word = <<>> THEN <<>>
    ELSE LET w1 == replace(upper(word), <<"P","H">>, <<"F">>)
             w2 == replace(w1, <<"G","H">>, <<"F">>)
             w3 == replace(w2, <<"C","K">>, <<"K">>)
             w4 == replace(w3, <<"S","C","H">>, <<"S","K">>)
             metaphone == metaphone_loop(w4, <<>>, "")
         IN SubSeq(metaphone, 1, IF Len(metaphone) < 6 THEN Len(metaphone) ELSE 6)

max2(x, y) == IF x >= y THEN x ELSE y

\* a faulty variant of phonetic_distance, whose weights add up to 1.1:
\* soundex_sim * 0.5 + metaphone_sim * 0.4 + string_sim * 0.2
phonetic_distance_overweight(word1, word2) ==
    LET w1 == lower(word1)
        w2 == lower(word2)
        len_penalty == Frac(abs(Len(w1) - Len(w2)),
                            max2(max2(Len(w1), Len(w2)), 1))
    IN frac_sub(One,
                frac_sub(frac_add(frac_add(frac_mul(ratio(soundex(w1), soundex(w2)),
                                                    Frac(5, 10)),
                                           frac_mul(ratio(metaphone_simple(w1),
                                                          metaphone_simple(w2)),
                                                    Frac(4, 10))),
                                  frac_mul(ratio(w1, w2), Frac(2, 10))),
                         frac_mul(len_penalty, Frac(1, 10))))

phonetic_distance(word1, word2) ==
    LET w1 == lower(word1)
        w2 == lower(word2)
        soundex_sim == ratio(soundex(w1), soundex(w2))
        metaphone_sim == ratio(metaphone_simple(w1), metaphone_simple(w2))
        string_sim == ratio(w1, w2)
        len_penalty == Frac(abs(Len(w1) - Len(w2)),
                            max2(max2(Len(w1), Len(w2)), 1))
        combined_sim ==
            frac_sub(frac_add(frac_add(frac_mul(soundex_sim, Frac(4, 10)),
                                       frac_mul(metaphone_sim, Frac(4, 10))),
                              frac_mul(string_sim, Frac(2, 10))),
                     frac_mul(len_penalty, Frac(1, 10)))
    IN frac_sub(One, combined_sim)

\* float("inf") and 1 - float("inf")
Inf == [num |-> 1, den |-> 0]

NegInf == [num |-> -1, den |-> 0]

\* a faulty variant of keep_best, which lets a later candidate at the same
\* distance win: if distance <= best_distance
keep_best_or_equal(word, distance, best) ==
    IF best.distance = Inf \/ ~frac_lt(best.distance, distance)
    THEN [match |-> word, distance |-> distance]
    ELSE best

\* if distance < best_distance: best_distance = distance; best_match = word
keep_best(word, distance, best) ==
    IF best.distance = Inf \/ frac_lt(distance, best.distance)
    THEN [match |-> word, distance |-> distance]
    ELSE best

RECURSIVE find_loop_case_sensitive(_, _, _, _)
\* a faulty variant of find_loop, which skips the target in its own case
\* alone: if force_fuzzy and word == target_word
find_loop_case_sensitive(target_word, rest, force_fuzzy, best) ==
    IF rest = <<>> THEN best
    ELSE find_loop_case_sensitive(
             target_word, Tail(rest), force_fuzzy,
             IF force_fuzzy /\ Head(rest) = target_word
             THEN best
             ELSE keep_best(Head(rest),
                            phonetic_distance(target_word, Head(rest)), best))

RECURSIVE find_loop(_, _, _, _)
\* the loop of find_most_similar_word over the rest of the word list; best
\* holds best_match and best_distance
find_loop(target_word, rest, force_fuzzy, best) ==
    IF rest = <<>> THEN best
    ELSE find_loop(target_word, Tail(rest), force_fuzzy,
                   IF force_fuzzy /\ lower(Head(rest)) = lower(target_word)
                   THEN best
                   ELSE keep_best(Head(rest),
                                  phonetic_distance(target_word, Head(rest)),
                                  best))

\* return best_match, 1 - best_distance
found(best) ==
    [match |-> best.match,
     similarity |-> IF best.distance = Inf THEN NegInf
                    ELSE frac_sub(One, best.distance)]

find_most_similar_word(target_word, word_list, force_fuzzy) ==
    found(find_loop(target_word, word_list, force_fuzzy,
                    [match |-> <<>>, distance |-> Inf]))

(***************************************************************************)
(* The collaborators: the translation service behind simple_translate and  *)
(* the text-composition service behind generate_final_text.                *)
(***************************************************************************)
\* translations: the built-in dictionary of simple_translate (an excerpt:
\* lines 1495 and 1499 of ("spanish", "french"), 1509 and 1513 of
\* ("french", "spanish"))
translations ==
    [from : {"spanish"}, to : {"french"},
     word : {<<"a","g","u","a">>, <<"a","m","i","g","o">>}]
    \cup
    [from : {"french"}, to : {"spanish"},
     word : {<<"e","a","u">>, <<"a","m","i">>}]

translation_of(key) ==
    CASE key.word = <<"a","g","u","a">> -> <<"e","a","u">>
      [] key.word = <<"a","m","i","g","o">> -> <<"a","m","i">>
      [] key.word = <<"e","a","u">> -> <<"a","g","u","a">>
      [] key.word = <<"a","m","i">> -> <<"a","m","i","g","o">>

\* f"[untranslated: {word}]"
untranslated_marker(word) ==
    <<"[","u","n","t","r","a","n","s","l","a","t","e","d",":"," ">>
    \o word \o <<"]">>

\* "[untranslated:"
MarkerPrefix == <<"[","u","n","t","r","a","n","s","l","a","t","e","d",":">>

\* a faulty variant of simple_translate, which looks the word up in the
\* built-in dictionary in the case it was given: word in translations[key]
simple_translate_exact_case(word, from_lang, to_lang, answer) ==
    IF answer.ok THEN (IF answer.echo THEN word ELSE answer.text)
    ELSE LET key == [from |-> lower_name(from_lang), to |-> lower_name(to_lang),
                     word |-> word]
         IN IF key \in translations THEN translation_of(key)
            ELSE untranslated_marker(word)

\* simple_translate; answer is what the translation service does: it
\* raises, or it returns a text (ok), which is the word itself (echo) or
\* answer.text
simple_translate(word, from_lang, to_lang, answer) ==
    IF answer.ok THEN (IF answer.echo THEN word ELSE answer.text)
    ELSE LET key == [from |-> lower_name(from_lang), to |-> lower_name(to_lang),
                     word |-> lower(word)]
         IN IF key \in translations THEN translation_of(key)
            ELSE untranslated_marker(word)

RECURSIVE split_count(_)
\* len(text.split()): the number of whitespace-delimited tokens
split_count(text) ==
    LET t == lstrip(text)
    IN IF t = <<>> THEN 0
       ELSE 1 + split_count(SubSeq(t, Len(take_token(t)) + 1, Len(t)))

\* a faulty variant of generate_final_text, which skips the service below
\* two tokens: if len(text.split()) < 2
generate_final_text_below_two(text, lang_a, answer) ==
    IF split_count(text) < 2 THEN [text |-> text, called |-> FALSE]
    ELSE [text |-> IF answer.ok THEN answer.text ELSE text, called |-> TRUE]

\* a faulty variant of generate_final_text, which returns an empty text when
\* the service fails: except Exception: return ""
generate_final_text_or_empty(text, lang_a, answer) ==
    IF split_count(text) < 3 THEN [text |-> text, called |-> FALSE]
    ELSE [text |-> IF answer.ok THEN answer.text ELSE <<>>, called |-> TRUE]

\* generate_final_text; answer is what the composition service does: it
\* returns a text (ok) or raises (a missing API key raises as well).
\* called tells whether the service was called.
generate_final_text(text, lang_a, answer) ==
    IF split_count(text) < 3 THEN [text |-> text, called |-> FALSE]
    ELSE [text |-> IF answer.ok THEN answer.text ELSE text, called |-> TRUE]

(***************************************************************************)
(* Per-word strategies.  wl_a and wl_b are the vocabularies the strategy   *)
(* has loaded; answer is the translation service's behaviour.              *)
(***************************************************************************)
\* the second hop of transform_direct_fuzzy, matched_word_b being the first
second_hop(word, matched_word_b, final) ==
    [transformed |-> final.match,
     chain |-> <<word, matched_word_b, final.match>>]

first_hop(word, matched_word_b, wl_a) ==
    second_hop(word, matched_word_b,
               find_most_similar_word(matched_word_b, wl_a, TRUE))

transform_direct_fuzzy(word, wl_a, wl_b) ==
    first_hop(word, find_most_similar_word(word, wl_b, TRUE).match, wl_a)

\* the result of transform_direct_translate
translated(word, matched_word_b, final_word) ==
    [transformed |-> final_word,
     chain |-> <<word, matched_word_b, final_word>>]

translate_match(word, lang_a, lang_b, matched_word_b, answer) ==
    translated(word, matched_word_b,
               simple_translate(matched_word_b, lang_b, lang_a, answer))

\* a faulty variant of transform_direct_translate, which keeps the input word
\* when the translation is a failure marker
transform_translate_or_keep(word, lang_a, lang_b, wl_b, answer) ==
    IF startswith(translate_match(word, lang_a, lang_b,
                                  find_most_similar_word(word, wl_b, TRUE).match,
                                  answer).transformed, MarkerPrefix)
    THEN translated(word, find_most_similar_word(word, wl_b, TRUE).match, word)
    ELSE translate_match(word, lang_a, lang_b,
                         find_most_similar_word(word, wl_b, TRUE).match, answer)

transform_direct_translate(word, lang_a, lang_b, wl_b, answer) ==
    translate_match(word, lang_a, lang_b,
                    find_most_similar_word(word, wl_b, TRUE).match, answer)

\* fuzzy_haze, the branch "translation failed": the second nearest-match hop
fuzzy_fallback(word, matched_word_b, step2) ==
    [transformed |-> step2.match,
     method_used |-> "fuzzy_fallback",
     chain |-> <<word, matched_word_b, step2.match>>,
     final_similarity |-> step2.similarity]

\* a faulty variant of accept_or_fall_back, which takes an echo of the match
\* for a translation: if translated_word.startswith("[untranslated:")
accept_unless_marker(word, wl_a, matched_word_b, translated_word) ==
    IF startswith(translated_word, MarkerPrefix)
    THEN fuzzy_fallback(word, matched_word_b,
                        find_most_similar_word(matched_word_b, wl_a, TRUE))
    ELSE [transformed |-> translated_word,
          method_used |-> "translate",
          chain |-> <<word, matched_word_b, translated_word>>,
          final_similarity |-> One]

\* fuzzy_haze from the check of the translation on
accept_or_fall_back(word, wl_a, matched_word_b, translated_word) ==
    IF startswith(translated_word, MarkerPrefix)
       \/ translated_word = matched_word_b
    THEN fuzzy_fallback(word, matched_word_b,
                        find_most_similar_word(matched_word_b, wl_a, TRUE))
    ELSE [transformed |-> translated_word,
          method_used |-> "translate",
          chain |-> <<word, matched_word_b, translated_word>>,
          final_similarity |-> One]

\* fuzzy_haze from the translation of the match on
translate_back(word, lang_a, lang_b, wl_a, matched_word_b, answer) ==
    accept_or_fall_back(word, wl_a, matched_word_b,
                        simple_translate(matched_word_b, lang_b, lang_a, answer))

fuzzy_haze(word, lang_a, lang_b, wl_a, wl_b, answer) ==
    translate_back(word, lang_a, lang_b, wl_a,
                   find_most_similar_word(word, wl_b, TRUE).match, answer)

(***************************************************************************)
(* The inputs and the behaviours of the environment that are explored.     *)
(***************************************************************************)
\* the largest max_iterations rehaze is called with
MaxIterations == 3

\* the languages load_word_list is called with directly
Languages == {"english", "Dutch", "klingon"}

\* the (lang_a, lang_b) the sentence operations are called with
LangPairs == {<<"english", "spanish">>, <<"english", "klingon">>}

\* "sun", and "- you -": one word, three whitespace-delimited tokens
Sentences == {<<"s","u","n">>, <<"-"," ","y","o","u"," ","-">>}

\* the method values haze is called with: its two strategies, the value the
\* routes keep for hybrid_haze, and a value no route knows
Methods == {"fuzzy", "translate", "hybrid", "phonetic"}

\* the sentences haze and hybrid_haze are called with: those of rehaze, and
\* "sun dog": two words, two whitespace-delimited tokens
HazeSentences == Sentences \cup {<<"s","u","n"," ","d","o","g">>}

\* similarity_threshold: 0.0, the default 0.96, and 2.0
Thresholds == {Frac(0, 1), Frac(96, 100), Frac(2, 1)}

Raises == [ok |-> FALSE, echo |-> FALSE, text |-> <<>>]

\* the translation service raises, echoes the word, or translates it
TranslatorAnswers ==
    {Raises,
     [ok |-> TRUE, echo |-> TRUE, text |-> <<>>],
     [ok |-> TRUE, echo |-> FALSE, text |-> <<"a","i">>]}

\* the composition service raises or returns a text
ComposerAnswers == {Raises, [ok |-> TRUE, echo |-> FALSE, text |-> <<"a","i">>]}

(***************************************************************************)
(* State.                                                                  *)
(***************************************************************************)
VARIABLES
    word_lists,         \* Hazer.word_lists: the vocabulary cache
    pc,                 \* position of the running call; "done" when it has
                        \* ended, "idle" once the caller has its result
    call,               \* the running top-level call and its arguments
    tokens,             \* haze / hybrid_haze: words (the token list)
    idx,                \* index of the token the loop over words is at
    transformed_words,  \* haze / hybrid_haze: transformed_words
    word_details,       \* haze / hybrid_haze: word_details
    word_list_a,        \* the strategy's word_list_a
    word_list_b,        \* the strategy's word_list_b
    current_text,       \* rehaze: current_text
    i,                  \* rehaze: the loop variable i
    iterations,         \* rehaze: iterations
    result,             \* what the call that has just finished returned or raised
    last,               \* log of the last load_word_list of the call
    returned,           \* the cache keys for which a load has returned
    said,               \* log of the strategy the latest step ran on a word
    composed,           \* log of the generate_final_text the latest step ran
    threads             \* the load_word_list calls of the web requests that
                        \* run at the same time on the shared Hazer

vars ==
    <<word_lists, pc, call, tokens, idx, transformed_words, word_details,
      word_list_a, word_list_b, current_text, i, iterations, result, last,
      returned, said, composed, threads>>

sentence_vars == <<tokens, idx, transformed_words, word_details>>

rehaze_vars == <<current_text, i, iterations>>

load_vars == <<word_lists, last, returned>>

NoCall ==
    [op |-> "none", text |-> <<>>, lang_a |-> "", lang_b |-> "", method |-> "",
     max_iterations |-> 0, similarity_threshold |-> Zero]

NoResult == [op |-> "none", raised |-> FALSE, value |-> <<>>]

NoLoad ==
    [language |-> "", raised |-> FALSE, words |-> <<>>, hit |-> FALSE,
     tiers |-> <<>>, before |-> <<>>, seen |-> FALSE]

\* no strategy ran in the latest step.  Otherwise: the word, the two
\* vocabularies the strategy loaded, and in asked what the translation
\* service did each time the strategy called simple_translate
NoExchange == [word |-> <<>>, wl_a |-> <<>>, wl_b |-> <<>>, asked |-> <<>>, ran |-> FALSE]

\* no generate_final_text ran in the latest step.  Otherwise: the rebuilt
\* sentence it was given, and in calls what the composition service did each
\* time it was called
NoComposition == [rebuilt |-> <<>>, calls |-> <<>>, ran |-> FALSE]

\* the latest step ran neither a strategy nor generate_final_text
Quiet == said' = NoExchange /\ composed' = NoComposition /\ threads' = threads

Init ==
    /\ threads = <<>>
    /\ said = NoExchange
    /\ composed = NoComposition
    /\ word_lists = <<>>
    /\ pc = "idle"
    /\ call = NoCall
    /\ tokens = <<>>
    /\ idx = 1
    /\ transformed_words = <<>>
    /\ word_details = <<>>
    /\ word_list_a = <<>>
    /\ word_list_b = <<>>
    /\ current_text = <<>>
    /\ i = 0
    /\ iterations = <<>>
    /\ result = NoResult
    /\ last = NoLoad
    /\ returned = {}

\* One call of load_word_list(language) by the running code: the cache and
\* the log change as the call says; r is the value of load_word_list.
Loads(language, r) ==
    /\ word_lists' = r.word_lists
    /\ last' = [language |-> language, raised |-> r.raised, words |-> r.words,
                hit |-> r.hit, tiers |-> r.tiers, before |-> word_lists,
                seen |-> language \in returned]
    /\ returned' = IF r.raised THEN returned ELSE returned \cup {language}

\* load_word_list(language), called from outside, hands r to its caller.
Returns(language, r) ==
    /\ Loads(language, r)
    /\ result' = [op |-> "load_word_list", raised |-> r.raised, value |-> r.words]

\* The running call ends: with a value, or with the ValueError of
\* _get_builtin_wordlist, which nothing in Hazer catches.
Ends(raised, value) ==
    /\ result' = [op |-> call.op, raised |-> raised, value |-> value]
    /\ pc' = "done"
    /\ call' = NoCall
    /\ tokens' = <<>>
    /\ idx' = 1
    /\ transformed_words' = <<>>
    /\ word_details' = <<>>
    /\ word_list_a' = <<>>
    /\ word_list_b' = <<>>
    /\ current_text' = <<>>
    /\ i' = 0
    /\ iterations' = <<>>

(***************************************************************************)
(* Calls from outside.                                                     *)
(***************************************************************************)
\* hazer.load_word_list(language), called directly
CallLoadWordList ==
    /\ pc = "idle"
    /\ \E language \in Languages : \E r1, r2 \in Responses :
         Returns(language, load_word_list(word_lists, language, r1, r2))
    /\ pc' = "done"
    /\ Quiet
    /\ UNCHANGED <<call, sentence_vars, word_list_a, word_list_b, rehaze_vars>>

\* haze(sentence, lang_a, lang_b, method): up to the loop over the tokens
CallHaze ==
    /\ pc = "idle"
    /\ \E sentence \in HazeSentences : \E pair \in LangPairs :
       \E method \in Methods :
         /\ call' = [NoCall EXCEPT !.op = "haze", !.text = sentence,
                                   !.lang_a = pair[1], !.lang_b = pair[2],
                                   !.method = method]
         /\ tokens' = findall_tokens(sentence)
    /\ idx' = 1
    /\ transformed_words' = <<>>
    /\ word_details' = <<>>
    /\ pc' = "token"
    /\ Quiet
    /\ UNCHANGED <<load_vars, word_list_a, word_list_b, rehaze_vars, result>>

\* hybrid_haze(sentence, lang_a, lang_b): up to the loop over the tokens
CallHybridHaze ==
    /\ pc = "idle"
    /\ \E sentence \in HazeSentences : \E pair \in LangPairs :
         /\ call' = [NoCall EXCEPT !.op = "hybrid_haze", !.text = sentence,
                                   !.lang_a = pair[1], !.lang_b = pair[2],
                                   !.method = "fuzzy_then_translate"]
         /\ tokens' = findall_tokens(sentence)
    /\ idx' = 1
    /\ transformed_words' = <<>>
    /\ word_details' = <<>>
    /\ pc' = "token"
    /\ Quiet
    /\ UNCHANGED <<load_vars, word_list_a, word_list_b, rehaze_vars, result>>

\* rehaze(initial_text, lang_a, lang_b, max_iterations, similarity_threshold):
\* up to the for loop
CallRehaze ==
    /\ pc = "idle"
    /\ \E initial_text \in Sentences : \E pair \in LangPairs :
       \E max_iterations \in 0..MaxIterations : \E threshold \in Thresholds :
         /\ call' = [NoCall EXCEPT !.op = "rehaze", !.text = initial_text,
                                   !.lang_a = pair[1], !.lang_b = pair[2],
                                   !.method = "fuzzy_then_translate",
                                   !.max_iterations = max_iterations,
                                   !.similarity_threshold = threshold]
         /\ current_text' = initial_text
    /\ iterations' = <<>>
    /\ i' = 0
    /\ pc' = "loop"
    /\ Quiet
    /\ UNCHANGED <<load_vars, sentence_vars, word_list_a, word_list_b, result>>

(***************************************************************************)
(* The loop of haze and hybrid_haze over the tokens.                       *)
(***************************************************************************)
AtToken == pc = "token" /\ idx <= Len(tokens)

\* the strategies that load word_list_a first: transform_direct_fuzzy and
\* fuzzy_haze; transform_direct_translate loads word_list_b alone
LoadsBoth == call.op \in {"hybrid_haze", "rehaze"} \/ call.method = "fuzzy"

\* a faulty variant of PassToken, which keeps a Transformation Record of the
\* token that is not a word as well
PassTokenRecorded ==
    /\ AtToken
    /\ ~is_word_token(tokens[idx])
    /\ transformed_words' = Append(transformed_words, tokens[idx])
    /\ word_details' =
         Append(word_details,
                [original |-> tokens[idx], transformed |-> tokens[idx],
                 chain |-> <<tokens[idx]>>, method |-> call.method])
    /\ idx' = idx + 1
    /\ Quiet
    /\ UNCHANGED <<load_vars, pc, call, tokens, word_list_a, word_list_b,
                   rehaze_vars, result>>

\* a token that is not a word passes through unchanged
PassToken ==
    /\ AtToken
    /\ ~is_word_token(tokens[idx])
    /\ transformed_words' = Append(transformed_words, tokens[idx])
    /\ idx' = idx + 1
    /\ Quiet
    /\ UNCHANGED <<load_vars, pc, call, tokens, word_details, word_list_a,
                   word_list_b, rehaze_vars, result>>

\* word_list_a = self.load_word_list(lang_a), r being what the call does
LoadedA(r) ==
    /\ Loads(call.lang_a, r)
    /\ Quiet
    /\ IF r.raised
       THEN Ends(TRUE, <<>>)
       ELSE /\ word_list_a' = r.words
            /\ pc' = "load_b"
            /\ UNCHANGED <<call, sentence_vars, word_list_b, rehaze_vars, result>>

LoadA ==
    /\ AtToken
    /\ is_word_token(tokens[idx])
    /\ LoadsBoth
    /\ \E r1, r2 \in Responses :
         LoadedA(load_word_list(word_lists, call.lang_a, r1, r2))

\* word_list_b = self.load_word_list(lang_b), r being what the call does
LoadedB(r) ==
    /\ Loads(call.lang_b, r)
    /\ Quiet
    /\ IF r.raised
       THEN Ends(TRUE, <<>>)
       ELSE /\ word_list_b' = r.words
            /\ pc' = "word"
            /\ UNCHANGED <<call, sentence_vars, word_list_a, rehaze_vars, result>>

LoadB ==
    /\ \/ pc = "load_b"
       \/ AtToken /\ is_word_token(tokens[idx]) /\ ~LoadsBoth
    /\ \E r1, r2 \in Responses :
         LoadedB(load_word_list(word_lists, call.lang_b, r1, r2))

\* a faulty variant of HazeAppends, which records the name of the strategy
\* that ran in place of the method given
HazeAppendsStrategy(item, t) ==
    /\ transformed_words' = Append(transformed_words, t.transformed)
    /\ word_details' =
         Append(word_details,
                [original |-> item, transformed |-> t.transformed,
                 chain |-> t.chain,
                 method |-> IF call.method = "fuzzy" THEN "fuzzy" ELSE "translate"])

\* the bookkeeping of haze for a word: result is what the strategy returned
HazeAppends(item, t) ==
    /\ transformed_words' = Append(transformed_words, t.transformed)
    /\ word_details' =
         Append(word_details,
                [original |-> item, transformed |-> t.transformed,
                 chain |-> t.chain, method |-> call.method])

\* the bookkeeping of hybrid_haze for a word
HybridAppends(item, t) ==
    /\ transformed_words' = Append(transformed_words, t.transformed)
    /\ word_details' =
         Append(word_details,
                [original |-> item, transformed |-> t.transformed,
                 chain |-> Append(t.chain, t.method_used),
                 method |-> "fuzzy_then_translate",
                 fallback_used |-> t.method_used])

\* the log of the strategy that runs on tokens[idx]; asked holds what the
\* translation service did when the strategy called simple_translate
Says(asked) ==
    /\ said' = [word |-> tokens[idx], wl_a |-> word_list_a,
                wl_b |-> word_list_b, asked |-> asked, ran |-> TRUE]
    /\ composed' = NoComposition
    /\ threads' = threads

\* the rest of the strategy on the word, and the bookkeeping of the loop
TransformWord ==
    /\ pc = "word"
    /\ \/ /\ call.op = "haze"
          /\ call.method = "fuzzy"
          /\ Says(<<>>)
          /\ HazeAppends(tokens[idx],
                         transform_direct_fuzzy(tokens[idx], word_list_a,
                                                word_list_b))
       \/ /\ call.op = "haze"
          /\ call.method # "fuzzy"
          /\ \E answer \in TranslatorAnswers :
               /\ Says(<<answer>>)
               /\ HazeAppends(tokens[idx],
                              transform_direct_translate(tokens[idx],
                                                         call.lang_a,
                                                         call.lang_b,
                                                         word_list_b, answer))
       \/ /\ call.op \in {"hybrid_haze", "rehaze"}
          /\ \E answer \in TranslatorAnswers :
               /\ Says(<<answer>>)
               /\ HybridAppends(tokens[idx],
                                fuzzy_haze(tokens[idx], call.lang_a, call.lang_b,
                                           word_list_a, word_list_b, answer))
    /\ idx' = idx + 1
    /\ pc' = "token"
    /\ word_list_a' = <<>>
    /\ word_list_b' = <<>>
    /\ UNCHANGED <<load_vars, call, tokens, rehaze_vars, result>>

\* what haze and hybrid_haze return
SentenceResult(transformed_sentence) ==
    [original_sentence |-> call.text,
     transformed_sentence |-> transformed_sentence,
     method |-> call.method,
     language_route |-> <<call.lang_a, call.lang_b, call.lang_a>>,
     word_transformations |-> word_details,
     word_count |-> Len(word_details)]

\* the log of generate_final_text(rebuilt, lang_a): g is what it did, the
\* composition service doing `answer` if it is called
Composes(rebuilt, answer, g) ==
    /\ composed' = [rebuilt |-> rebuilt,
                    calls |-> IF g.called THEN <<answer>> ELSE <<>>,
                    ran |-> TRUE]
    /\ said' = NoExchange
    /\ threads' = threads

\* the sentence is rebuilt and generate_final_text has answered g: return
Finishes(rebuilt, answer, g) ==
    /\ Composes(rebuilt, answer, g)
    /\ Ends(FALSE, SentenceResult(g.text))

\* after the loop: join, generate_final_text, return
FinishSentence ==
    /\ pc = "token"
    /\ idx > Len(tokens)
    /\ call.op \in {"haze", "hybrid_haze"}
    /\ \E answer \in ComposerAnswers :
         Finishes(join_tokens(transformed_words), answer,
                  generate_final_text(join_tokens(transformed_words),
                                      call.lang_a, answer))
    /\ UNCHANGED load_vars

(***************************************************************************)
(* rehaze.                                                                 *)
(***************************************************************************)
\* a faulty variant of in_range, which runs one round more:
\* for i in range(max_iterations + 1)
in_range_and_one(round, max_iterations) == round <= max_iterations

\* for i in range(max_iterations): whether the loop has a round `round`
in_range(round, max_iterations) == round < max_iterations

\* for i in range(max_iterations): the body starts with hybrid_haze on
\* current_text; after the last round the loop is left
RehazeLoop ==
    /\ pc = "loop"
    /\ IF in_range(i, call.max_iterations)
       THEN /\ tokens' = findall_tokens(current_text)
            /\ idx' = 1
            /\ transformed_words' = <<>>
            /\ word_details' = <<>>
            /\ pc' = "token"
       ELSE /\ pc' = "return"
            /\ UNCHANGED sentence_vars
    /\ Quiet
    /\ UNCHANGED <<load_vars, call, word_list_a, word_list_b, rehaze_vars, result>>

\* a faulty variant of similarity_of, which starts comparing one round
\* later: if i > 1
similarity_after_second(round, input_text, text) ==
    IF round > 1 THEN ratio(lower(input_text), lower(text)) ELSE Zero

\* similarity_to_previous of the round i (0-based) whose input is
\* current_text and whose cleaned output is text
similarity_of(round, input_text, text) ==
    IF round > 0 THEN ratio(lower(input_text), lower(text)) ELSE Zero

\* a faulty variant of next_input, which keeps the text the round was given
next_input_kept(input_text, text) == input_text

\* current_text = text: the input of the next round is the cleaned output
\* of this one
next_input(input_text, text) == text

\* the loop body from "Store iteration data" on: text is the cleaned output
\* and similarity its similarity_to_previous
Records(text, similarity) ==
    /\ iterations' =
         Append(iterations,
                [iteration |-> i + 1,
                 input_text |-> current_text,
                 output_text |-> text,
                 similarity_to_previous |-> similarity,
                 word_transformations |-> word_details,
                 transformation_count |-> Len(word_details)])
    /\ IF frac_ge(similarity, call.similarity_threshold)
       THEN /\ pc' = "return"
            /\ UNCHANGED <<current_text, i>>
       ELSE /\ current_text' = next_input(current_text, text)
            /\ i' = i + 1
            /\ pc' = "loop"

\* the loop body from "Calculate similarity with previous iteration" on
Compares(text) == Records(text, similarity_of(i, current_text, text))

\* the rest of the loop body once hybrid_haze has gone through the tokens:
\* hybrid_haze returns, the output is cleaned and compared, the round is
\* recorded, and the loop breaks or goes on
RehazeIteration ==
    /\ pc = "token"
    /\ idx > Len(tokens)
    /\ call.op = "rehaze"
    /\ \E answer \in ComposerAnswers :
         /\ Composes(join_tokens(transformed_words), answer,
                     generate_final_text(join_tokens(transformed_words),
                                         call.lang_a, answer))
         /\ Compares(cleanup(generate_final_text(join_tokens(transformed_words),
                                                 call.lang_a, answer).text))
    /\ tokens' = <<>>
    /\ idx' = 1
    /\ transformed_words' = <<>>
    /\ word_details' = <<>>
    /\ UNCHANGED <<load_vars, call, word_list_a, word_list_b, result>>

RECURSIVE output_texts(_)
\* "\n".join of the output texts is kept as the list of the texts
output_texts(its) ==
    IF its = <<>> THEN <<>>
    ELSE <<Head(its).output_text>> \o output_texts(Tail(its))

\* a faulty variant of converged, which counts the cap as converged:
\* len(iterations) <= max_iterations
converged_at_cap(total, max_iterations) == total <= max_iterations

\* "converged": len(iterations) < max_iterations
converged(total, max_iterations) == total < max_iterations

\* what rehaze returns
ConvergenceResult ==
    [initial_text |-> call.text,
     final_text |-> output_texts(iterations),
     final_iteration_text |-> current_text,
     iterations |-> iterations,
     total_iterations |-> Len(iterations),
     converged |-> converged(Len(iterations), call.max_iterations),
     final_similarity |-> IF Len(iterations) > 1
                          THEN iterations[Len(iterations)].similarity_to_previous
                          ELSE Zero,
     language_route |-> <<call.lang_a, call.lang_b>>,
     parameters |-> [max_iterations |-> call.max_iterations,
                     similarity_threshold |-> call.similarity_threshold]]

RehazeReturn ==
    /\ pc = "return"
    /\ Ends(FALSE, ConvergenceResult)
    /\ Quiet
    /\ UNCHANGED load_vars

\* The caller takes the result; the Hazer, with its cache, waits for the
\* next call.
Collect ==
    /\ pc = "done"
    /\ pc' = "idle"
    /\ result' = NoResult
    /\ last' = NoLoad
    /\ Quiet
    /\ UNCHANGED <<word_lists, returned, call, sentence_vars, word_list_a,
                   word_list_b, rehaze_vars>>

Next ==
    \/ CallLoadWordList
    \/ CallHaze
    \/ CallHybridHaze
    \/ CallRehaze
    \/ PassToken
    \/ LoadA
    \/ LoadB
    \/ TransformWord
    \/ FinishSentence
    \/ RehazeLoop
    \/ RehazeIteration
    \/ RehazeReturn
    \/ Collect

Spec == Init /\ [][Next]_vars

(***************************************************************************)
(* The functions of the engine applied on their own: call holds the        *)
(* function and its arguments, result what it returned.                    *)
(***************************************************************************)
\* the longest vocabulary find_most_similar_word is applied to
MaxVocab == 3

\* the longest sentence the tokenizer is applied to
MaxLen == 3

\* the empty word, words with a case variant, and words at the same
\* phonetic distance of one another
FinderWords == {<<>>, <<"a">>, <<"A">>, <<"b">>, <<"c">>, <<"a","b">>}

\* the vocabularies: the sequences of at most MaxVocab words
Vocabularies == UNION {[1..n -> FinderWords] : n \in 0..MaxVocab}

FinderCalls ==
    [op : {"find_most_similar_word"}, target_word : FinderWords,
     word_list : Vocabularies, force_fuzzy : BOOLEAN]

\* "agua" and "eau" are in the built-in dictionary, "xyz123" is not
TranslatedWords ==
    {<<"a","g","u","a">>, <<"A","g","u","a">>, <<"e","a","u">>,
     <<"x","y","z","1","2","3">>}

TranslateCalls ==
    [op : {"simple_translate"}, word : TranslatedWords,
     from_lang : {"spanish", "Spanish", "english"},
     to_lang : {"french", "French", "spanish"},
     answer : TranslatorAnswers]

\* a letter, an accented letter, a digit, the underscore, a space, a hyphen
SentenceChars == {"a", "é", "1", "_", " ", "-"}

\* the sentences of at most MaxLen characters
ShortSentences == UNION {[1..n -> SentenceChars] : n \in 0..MaxLen}

TokenizeCalls == [op : {"findall"}, sentence : ShortSentences]

\* the characters of the short words the encoders are applied to: a vowel,
\* two consonants of one soundex class, the parts of a digraph
EncoderChars == {"a", "b", "p", "h"}

\* the words the encoders are applied to: the words of at most MaxLen
\* characters, and longer ones: "papa" (line 546), "banana" (249), "dedo"
\* (511), "phone", "schmidt", "strengths" and "árbol"
EncoderWords ==
    UNION {[1..n -> EncoderChars] : n \in 0..MaxLen}
    \cup {<<"p","a","p","a">>, <<"b","a","n","a","n","a">>, <<"d","e","d","o">>,
          <<"p","h","o","n","e">>, <<"s","c","h","m","i","d","t">>,
          <<"s","t","r","e","n","g","t","h","s">>, <<"á","r","b","o","l">>}

EncodeCalls == [op : {"encode"}, word : EncoderWords]

\* the words whose phonetic distance is taken, two by two
DistanceWords ==
    FinderWords
    \cup {<<"s","u","n">>, <<"s","o","l">>, <<"p","h","o","n","e">>,
          <<"s","t","r","e","n","g","t","h","s">>}

DistanceCalls ==
    [op : {"phonetic_distance"}, word1 : DistanceWords, word2 : DistanceWords]

\* a body whose lines are an entry of 26 letters, one of 25, a hyphenated
\* one and two words on a line
BodyLong ==
    [ok |-> TRUE,
     lines |-> << [k \in 1..(MaxWordLen + 1) |-> "a"],
                  [k \in 1..MaxWordLen |-> "b"],
                  <<"a","-","b">>, <<"É","t","é"," ","n","o">> >>]

\* load_word_list on a Hazer whose cache is empty
LoadCalls ==
    [op : {"load_word_list"}, language : {"english", "french", "Dutch", "klingon"},
     r1 : Responses \cup {BodyLong}, r2 : Responses \cup {BodyLong}]

\* def hybrid_haze(self, sentence, lang_a, lang_b): the names a call may
\* pass by keyword
hybrid_haze_parameters == {"sentence", "lang_a", "lang_b"}

\* the keyword process_text passes: hybrid_haze(text, "english", "spanish",
\* method="nonfuzzy")
process_text_keywords == {"method"}

\* a call with a keyword the function does not take raises TypeError before
\* the body runs
call_raises(parameters, keywords) == ~(keywords \subseteq parameters)

\* PhoneticFuzzer.process_text: the blank text, the except clause around
\* the call of hybrid_haze, and the formatted result that follows a call
\* that returned
process_text(text) ==
    IF strip(text) = <<>>
    THEN [error |-> "Empty text provided"]
    ELSE IF call_raises(hybrid_haze_parameters, process_text_keywords)
         THEN [error |-> "Processing failed"]
         ELSE [original_text |-> text, language_route |-> <<"english", "spanish", "english">>]

ProcessCalls == [op : {"process_text"}, text : ShortSentences]

FunctionsInit ==
    /\ pc = "given"
    /\ call \in FinderCalls \cup TranslateCalls \cup TokenizeCalls
                \cup EncodeCalls \cup DistanceCalls \cup LoadCalls
                \cup ProcessCalls
    /\ result = NoResult
    /\ word_lists = <<>>
    /\ tokens = <<>>
    /\ idx = 1
    /\ transformed_words = <<>>
    /\ word_details = <<>>
    /\ word_list_a = <<>>
    /\ word_list_b = <<>>
    /\ current_text = <<>>
    /\ i = 0
    /\ iterations = <<>>
    /\ last = NoLoad
    /\ returned = {}
    /\ said = NoExchange
    /\ composed = NoComposition
    /\ threads = <<>>

\* the function returns value
Applied(value) ==
    /\ result' = [op |-> call.op, raised |-> FALSE, value |-> value]
    /\ pc' = "applied"
    /\ UNCHANGED <<word_lists, call, sentence_vars, word_list_a, word_list_b,
                   rehaze_vars, last, returned, said, composed, threads>>

ApplyFindMostSimilarWord ==
    /\ pc = "given"
    /\ call.op = "find_most_similar_word"
    /\ Applied(find_most_similar_word(call.target_word, call.word_list,
                                      call.force_fuzzy))

ApplySimpleTranslate ==
    /\ pc = "given"
    /\ call.op = "simple_translate"
    /\ Applied(simple_translate(call.word, call.from_lang, call.to_lang,
                                call.answer))

\* words = re.findall(...), then "".join of the tokens as they are
ApplyFindall ==
    /\ pc = "given"
    /\ call.op = "findall"
    /\ Applied([words |-> findall_tokens(call.sentence),
                joined |-> join_tokens(findall_tokens(call.sentence))])

\* soundex(word) and metaphone_simple(word)
ApplyEncode ==
    /\ pc = "given"
    /\ call.op = "encode"
    /\ Applied([soundex |-> soundex(call.word),
                metaphone_simple |-> metaphone_simple(call.word)])

ApplyPhoneticDistance ==
    /\ pc = "given"
    /\ call.op = "phonetic_distance"
    /\ Applied(phonetic_distance(call.word1, call.word2))

\* load_word_list(language); the value is the vocabulary and the tiers the
\* call went through
ApplyLoadWordList ==
    /\ pc = "given"
    /\ call.op = "load_word_list"
    /\ LET r == load_word_list(<<>>, call.language, call.r1, call.r2)
       IN /\ result' = [op |-> call.op, raised |-> r.raised,
                        value |-> [words |-> r.words, tiers |-> r.tiers]]
          /\ pc' = "applied"
          /\ UNCHANGED <<word_lists, call, sentence_vars, word_list_a,
                         word_list_b, rehaze_vars, last, returned, said,
                         composed, threads>>

ApplyProcessText ==
    /\ pc = "given"
    /\ call.op = "process_text"
    /\ Applied(process_text(call.text))

FunctionsNext ==
    \/ ApplyProcessText
    \/ ApplyFindMostSimilarWord
    \/ ApplySimpleTranslate
    \/ ApplyFindall
    \/ ApplyEncode
    \/ ApplyPhoneticDistance
    \/ ApplyLoadWordList

FunctionsSpec == FunctionsInit /\ [][FunctionsNext]_vars

(***************************************************************************)
(* Two web requests at the same time.  app.py keeps one Hazer for all      *)
(* requests, and load_word_list takes no lock: between its statements the  *)
(* other request's thread may run.                                         *)
(***************************************************************************)
Threads == {1, 2}

\* the languages the two requests ask for
ThreadLanguages == {"english", "Dutch", "klingon"}

\* a call of load_word_list that has not run its first statement
Started(language) ==
    [pc |-> "check", language |-> language, missed |-> FALSE,
     fetches |-> 0, raised |-> FALSE, words |-> <<>>]

ConcurrentInit ==
    /\ threads \in [Threads -> {Started(language) : language \in ThreadLanguages}]
    /\ word_lists = <<>>
    /\ pc = "requests"
    /\ call = NoCall
    /\ result = NoResult
    /\ tokens = <<>>
    /\ idx = 1
    /\ transformed_words = <<>>
    /\ word_details = <<>>
    /\ word_list_a = <<>>
    /\ word_list_b = <<>>
    /\ current_text = <<>>
    /\ i = 0
    /\ iterations = <<>>
    /\ last = NoLoad
    /\ returned = {}
    /\ said = NoExchange
    /\ composed = NoComposition

\* what a statement of thread t leaves alone besides the cache
ThreadOnly ==
    UNCHANGED <<pc, call, sentence_vars, word_list_a, word_list_b, rehaze_vars,
                result, last, returned, said, composed>>

\* the thread counts the fetch when requests.get was called
Counted(t, fetched) == threads[t].fetches + (IF fetched THEN 1 ELSE 0)

\* thread t returns words, after storing them when the tier produced them
ThreadReturns(t, fetched, words) ==
    /\ threads' = [threads EXCEPT ![t].pc = "returned", ![t].words = words,
                                  ![t].fetches = Counted(t, fetched)]
    /\ word_lists' = cache_put(word_lists, threads[t].language, words)

\* thread t goes on to the tier `next`
ThreadFallsThrough(t, fetched, next) ==
    /\ threads' = [threads EXCEPT ![t].pc = next,
                                  ![t].fetches = Counted(t, fetched)]
    /\ UNCHANGED word_lists

\* if language in self.word_lists: return self.word_lists[language]
ThreadCheck(t) ==
    /\ threads[t].pc = "check"
    /\ IF cached(word_lists, threads[t].language)
       THEN threads' = [threads EXCEPT ![t].pc = "returned",
                                       ![t].words = word_lists[threads[t].language]]
       ELSE threads' = [threads EXCEPT ![t].pc = "frequency", ![t].missed = TRUE]
    /\ UNCHANGED word_lists
    /\ ThreadOnly

\* words = self._try_frequency_lists(language); if words: store and return
ThreadFrequency(t) ==
    /\ threads[t].pc = "frequency"
    /\ \E r \in Responses :
         LET f == _try_frequency_lists(threads[t].language, r)
         IN IF f.words # <<>>
            THEN ThreadReturns(t, f.fetched, f.words)
            ELSE ThreadFallsThrough(t, f.fetched, "online")
    /\ ThreadOnly

\* words = self._try_online_wordlist(language); if words: store and return
ThreadOnline(t) ==
    /\ threads[t].pc = "online"
    /\ \E r \in Responses :
         LET o == _try_online_wordlist(threads[t].language, r)
         IN IF o.words # <<>>
            THEN ThreadReturns(t, o.fetched, o.words)
            ELSE ThreadFallsThrough(t, o.fetched, "builtin")
    /\ ThreadOnly

\* return self._get_builtin_wordlist(language)
ThreadBuiltin(t) ==
    /\ threads[t].pc = "builtin"
    /\ LET b == _get_builtin_wordlist(threads[t].language)
       IN threads' = [threads EXCEPT
                        ![t].pc = IF b.raised THEN "raised" ELSE "returned",
                        ![t].raised = b.raised,
                        ![t].words = b.words]
    /\ UNCHANGED word_lists
    /\ ThreadOnly

ConcurrentNext ==
    \E t \in Threads :
        \/ ThreadCheck(t)
        \/ ThreadFrequency(t)
        \/ ThreadOnline(t)
        \/ ThreadBuiltin(t)

ConcurrentSpec == ConcurrentInit /\ [][ConcurrentNext]_vars



(***************************************************************************)
(* Properties.                                                             *)
(***************************************************************************)
\* a rehaze call has returned its Convergence Result
RehazeDone == pc = "done" /\ result.op = "rehaze" /\ ~result.raised

\* a load_word_list call has ended (returned or raised)
LoadEnded == last.language # ""

\* the tiers that hold an entry for the language
frequency_knows(language) == lower_name(language) \in freq_urls

online_knows(language) == lower_name(language) \in urls

builtin_knows(language) == lower_name(language) \in DOMAIN sample_words

\* the load performed a network fetch
Fetched(load) == \E k \in 1..Len(load.tiers) : load.tiers[k].fetched

\* iteration k of a Convergence Result reached the threshold of its call
Reached(value, k) ==
    frac_ge(value.iterations[k].similarity_to_previous,
            value.parameters.similarity_threshold)

\* a rehaze call is running: it has started and has neither returned nor
\* raised
RehazeRunning == call.op = "rehaze" /\ pc \notin {"idle", "done"}

\* a running rehaze call is at a statement it can execute: the head of the
\* for loop, a token of hybrid_haze's loop (a non-word, or a word whose
\* vocabularies are loaded next), the end of the tokens, the second load, the
\* strategy on the word, or the return
RehazeCanStep ==
    \/ pc = "loop"
    \/ AtToken
    \/ pc = "token" /\ idx = Len(tokens) + 1
    \/ pc = "load_b"
    \/ pc = "word" /\ idx <= Len(tokens)
    \/ pc = "return"

\* what is left of a running rehaze call, most significant first: the rounds
\* of the for loop, the hybrid_haze call of the round, the tokens of that
\* call, the statements on the current token
Rank ==
    <<IF pc = "return" THEN 0 ELSE call.max_iterations + 1 - i,
      IF pc = "loop" THEN 1 ELSE 0,
      IF pc \in {"token", "load_b", "word"} THEN Len(tokens) + 1 - idx ELSE 0,
      IF pc = "token" THEN 2 ELSE IF pc = "load_b" THEN 1 ELSE 0>>

\* the lexicographic order on Rank
LexLess(a, b) ==
    \E k \in 1..4 : a[k] < b[k] /\ \A j \in 1..(k - 1) : a[j] = b[j]

\* C1 (the states of a rehaze call): a running call can always execute its
\* next statement and what is left of it is a tuple of naturals; it never
\* holds more than max_iterations Iteration Records; and in its result the
\* number of records is the smaller of max_iterations and the index of the
\* first iteration whose similarity_to_previous reaches the threshold: no
\* record before the last reached the threshold, and there are fewer than
\* max_iterations records only if the last one reached it.
C1_Count ==
    /\ RehazeRunning =>
         /\ RehazeCanStep
         /\ \A k \in 1..4 : Rank[k] \in Nat
         /\ Len(iterations) <= call.max_iterations
    /\ RehazeDone =>
         LET v == result.value
             n == Len(v.iterations)
         IN /\ n <= v.parameters.max_iterations
            /\ \A k \in 1..(n - 1) : ~Reached(v, k)
            /\ n < v.parameters.max_iterations => n >= 1 /\ Reached(v, n)

\* C1: rehaze terminates, whatever the network, the translation service and
\* the composition service do: a running call can always take a step, and
\* every step either ends the call or leaves strictly less of it in a
\* well-founded order.  And it stops at the first iteration that reaches the
\* threshold or at the iteration cap, whichever comes first.
C1_RehazeStopsAtThresholdOrCap ==
    /\ []C1_Count
    /\ [][RehazeRunning => pc' = "done" \/ LexLess(Rank', Rank)]_vars

\* rehaze stopped at its second iteration because the threshold was reached,
\* below the cap
C1_Witness ==
    /\ RehazeDone
    /\ Len(result.value.iterations) = 2
    /\ result.value.parameters.max_iterations = 3
    /\ Reached(result.value, 2)

C3_FinalIterationTextIsLastOutput ==
    (RehazeDone /\ Len(result.value.iterations) >= 1) =>
        result.value.final_iteration_text
          = result.value.iterations[Len(result.value.iterations)].output_text

\* C4 as claimed: similarity_to_previous of iteration 1 is 0.0, and of every
\* later iteration it is the ratio between the previous iteration's input
\* text and that iteration's cleaned output text.
C4_SimilarityToPreviousInput ==
    RehazeDone =>
        LET its == result.value.iterations
        IN /\ Len(its) >= 1 => its[1].similarity_to_previous = Zero
           /\ \A k \in 2..Len(its) :
                its[k].similarity_to_previous
                  = ratio(lower(its[k - 1].input_text), lower(its[k].output_text))

\* C4, amended: similarity_to_previous of iteration 1 is 0.0, and of every
\* later iteration it is the ratio between the previous iteration's cleaned
\* output text (which is that iteration's own input text) and that
\* iteration's cleaned output text, both lowercased.
C4_SimilarityToPreviousOutput ==
    RehazeDone =>
        LET its == result.value.iterations
        IN /\ Len(its) >= 1 => its[1].similarity_to_previous = Zero
           /\ \A k \in 2..Len(its) :
                its[k].similarity_to_previous
                  = ratio(lower(its[k - 1].output_text), lower(its[k].output_text))

\* a second iteration whose output is neither its input nor disjoint from it
C4_Witness ==
    /\ RehazeDone
    /\ Len(result.value.iterations) >= 2
    /\ result.value.iterations[2].similarity_to_previous \notin {Zero, One}

\* C5: once a load of a language has returned a vocabulary, no later load of
\* that language performs a network fetch.
C5_NoFetchAfterLoad == ~(LoadEnded /\ last.seen /\ Fetched(last))

\* C6: after load_word_list(L) returns a vocabulary V from any tier, the
\* cache holds L mapped to V.
C6_ReturnedVocabularyIsCached ==
    (LoadEnded /\ ~last.raised) =>
        /\ last.language \in DOMAIN word_lists
        /\ word_lists[last.language] = last.words

\* C7: the cache is never invalidated: no step of any call, failing calls
\* included, removes or replaces a cached entry.
C7_CacheNeverInvalidated ==
    [][\A l \in DOMAIN word_lists :
          l \in DOMAIN word_lists' /\ word_lists'[l] = word_lists[l]]_vars

\* a call has failed with the unsupported-language error while another
\* language was cached, and the entry is still there
C7_Witness ==
    /\ pc = "done"
    /\ result.raised
    /\ "english" \in DOMAIN word_lists

\* the fixed order of the tiers
TierOrder == <<"frequency", "online", "builtin">>

\* C8: within one load_word_list call the tiers are tried in the order
\* frequency, general word list, embedded fallback; a tier is attempted only
\* if every earlier tier produced nothing; a cache hit attempts no tier.
C8_TiersInOrder ==
    LoadEnded =>
        /\ Len(last.tiers) <= 3
        /\ \A k \in 1..Len(last.tiers) : last.tiers[k].tier = TierOrder[k]
        /\ \A k \in 1..(Len(last.tiers) - 1) : ~last.tiers[k].produced
        /\ last.language \in DOMAIN last.before => last.tiers = <<>>
        /\ last.language \notin DOMAIN last.before => Len(last.tiers) >= 1

\* the general word list was reached, after an empty frequency tier, and
\* produced the vocabulary
C8_Witness ==
    /\ LoadEnded
    /\ Len(last.tiers) = 2
    /\ last.tiers[1].fetched
    /\ last.tiers[2].produced

\* C9: load_word_list(L) does not raise if any tier knows L.
C9_RaisesOnlyIfNoTierKnows ==
    (LoadEnded /\ last.raised) =>
        ~(frequency_knows(last.language) \/ online_knows(last.language)
          \/ builtin_knows(last.language))

\* C10: load_word_list of a language that no tier knows raises and leaves
\* the cache as it was before the call.
C10_UnknownLanguageRaises ==
    (LoadEnded /\ ~frequency_knows(last.language) /\ ~online_knows(last.language)
       /\ ~builtin_knows(last.language)) =>
        /\ last.raised
        /\ word_lists = last.before

\* load_word_list("klingon") has raised on a cache that holds a language
C10_Witness ==
    /\ LoadEnded
    /\ last.language = "klingon"
    /\ last.raised
    /\ DOMAIN last.before # {}

\* a haze or hybrid_haze call is running
SentenceRunning ==
    call.op \in {"haze", "hybrid_haze"} /\ pc \notin {"idle", "done"}

\* a haze or hybrid_haze call has ended (returned or raised)
SentenceEnded == pc = "done" /\ result.op \in {"haze", "hybrid_haze"}

\* a haze or hybrid_haze call has returned its Sentence Result
SentenceDone == SentenceEnded /\ ~result.raised

\* a running haze or hybrid_haze call is at a statement it can execute
SentenceCanStep ==
    \/ AtToken
    \/ pc = "token" /\ idx = Len(tokens) + 1
    \/ pc = "load_b"
    \/ pc = "word" /\ idx <= Len(tokens)

\* the fields of a Sentence Result
SentenceResultFields ==
    {"original_sentence", "transformed_sentence", "method", "language_route",
     "word_transformations", "word_count"}

\* the step ends a haze or hybrid_haze call as the propagation policy allows:
\* with a Sentence Result for the sentence of the call, or with the error of
\* a load of one of the call's languages that the embedded fallback lacks
EndsAsAllowed ==
    IF result'.raised
    THEN /\ last'.raised
         /\ last'.language \in {call.lang_a, call.lang_b}
         /\ ~builtin_knows(last'.language)
    ELSE /\ DOMAIN result'.value = SentenceResultFields
         /\ result'.value.original_sentence = call.text
         /\ result'.value.language_route = <<call.lang_a, call.lang_b, call.lang_a>>

\* C11: haze and hybrid_haze complete, whatever the word-source fetches, the
\* translation service and the composition service do: a running call can
\* always take a step and every step ends it or leaves strictly less of it.
\* They end with a Sentence Result, or with the unsupported-language error
\* of a load of lang_a or lang_b that the embedded fallback lacks; so a call
\* on a pair present in the embedded fallback returns a Sentence Result.
C11_SentenceCallsComplete ==
    /\ [](SentenceRunning => SentenceCanStep /\ \A k \in 1..4 : Rank[k] \in Nat)
    /\ [][SentenceRunning => pc' = "done" \/ LexLess(Rank', Rank)]_vars
    /\ [][SentenceRunning /\ pc' = "done" => EndsAsAllowed]_vars

\* hybrid_haze has returned a Sentence Result although the fetches of its
\* last load failed, the word fell back to the fuzzy hop and the composition
\* service raised
C11_Witness ==
    /\ SentenceDone
    /\ result.op = "hybrid_haze"
    /\ Len(last.tiers) = 3
    /\ last.tiers[1].fetched /\ last.tiers[2].fetched
    /\ result.value.word_transformations[1].fallback_used = "fuzzy_fallback"
    /\ composed.calls = <<Raises>>

\* the language-B match of the word the latest step ran a strategy on
SaidMatch == find_most_similar_word(said.word, said.wl_b, TRUE).match

\* what simple_translate returned to that strategy for the match
SaidTranslation ==
    simple_translate(SaidMatch, call.lang_b, call.lang_a, said.asked[1])

\* the translation is a failure marker or is identical to the match
TranslationFailed ==
    startswith(SaidTranslation, MarkerPrefix) \/ SaidTranslation = SaidMatch

\* the Transformation Record the latest step appended
LatestRecord == word_details[Len(word_details)]

\* the latest step ran the hybrid strategy on a word
HybridWordDone == said.ran /\ call.op \in {"hybrid_haze", "rehaze"}

\* C12: in hybrid_haze, for every word token, fallback_used is
\* "fuzzy_fallback" exactly when the translation of the language-B match is
\* a failure marker or is identical to the match, and then the transformed
\* word is the nearest match of the language-B match in vocabulary A;
\* otherwise fallback_used is "translate" and the transformed word is the
\* translation.  So when every translation fails, every word reports
\* "fuzzy_fallback".
C12_FallbackExactlyOnFailedTranslation ==
    HybridWordDone =>
        /\ Len(said.asked) = 1
        /\ LatestRecord.original = said.word
        /\ LatestRecord.fallback_used \in {"fuzzy_fallback", "translate"}
        /\ LatestRecord.fallback_used = "fuzzy_fallback" <=> TranslationFailed
        /\ TranslationFailed =>
             LatestRecord.transformed
               = find_most_similar_word(SaidMatch, said.wl_a, TRUE).match
        /\ ~TranslationFailed => LatestRecord.transformed = SaidTranslation

\* the translation service echoed the match of the second word of a
\* sentence, and hybrid_haze fell back to the fuzzy hop
C12_Witness ==
    /\ HybridWordDone
    /\ call.op = "hybrid_haze"
    /\ Len(word_details) = 2
    /\ said.asked[1].ok /\ said.asked[1].echo
    /\ LatestRecord.fallback_used = "fuzzy_fallback"
    /\ LatestRecord.transformed # SaidMatch

\* the latest step ran the translate strategy of haze on a word
TranslateWordDone == said.ran /\ call.op = "haze" /\ call.method # "fuzzy"

\* C13: with method "translate", haze never falls back: for every word token
\* the transformed word, in the record and in the rebuilt sentence, is
\* exactly the string simple_translate returned for the language-B match, a
\* "[untranslated: ...]" failure marker included.
C13_TranslateIsVerbatim ==
    TranslateWordDone =>
        /\ Len(said.asked) = 1
        /\ LatestRecord.original = said.word
        /\ LatestRecord.transformed = SaidTranslation
        /\ LatestRecord.chain = <<said.word, SaidMatch, SaidTranslation>>
        /\ LatestRecord.method = call.method
        /\ transformed_words[Len(transformed_words)] = SaidTranslation

\* the translation service raised and the transformed word is the failure
\* marker of the match
C13_Witness ==
    /\ TranslateWordDone
    /\ ~said.asked[1].ok
    /\ LatestRecord.transformed = untranslated_marker(SaidMatch)

\* the word tokens of a sentence, in order
WordTokens(sentence) == SelectSeq(findall_tokens(sentence), is_word_token)

\* C18: in the result of haze and of hybrid_haze, word_transformations holds
\* exactly one Transformation Record per word token of the input sentence,
\* in token order (record k's original is the k-th word token), and
\* word_count is the number of word tokens.
C18_OneRecordPerWordToken ==
    SentenceDone =>
        LET words == WordTokens(result.value.original_sentence)
            records == result.value.word_transformations
        IN /\ Len(records) = Len(words)
           /\ \A k \in 1..Len(words) : records[k].original = words[k]
           /\ result.value.word_count = Len(words)

\* haze has returned for "sun dog": two word tokens, word_count 2
C18_Witness ==
    /\ SentenceDone
    /\ result.op = "haze"
    /\ result.value.original_sentence = <<"s","u","n"," ","d","o","g">>
    /\ result.value.word_count = 2
    /\ result.value.word_transformations[2].original = <<"d","o","g">>

RECURSIVE Rebuilt(_, _)
\* the tokens of a sentence in order, each word token replaced by the
\* transformed word of its Transformation Record, concatenated
Rebuilt(toks, records) ==
    IF toks = <<>> THEN <<>>
    ELSE IF is_word_token(Head(toks))
         THEN Head(records).transformed \o Rebuilt(Tail(toks), Tail(records))
         ELSE Head(toks) \o Rebuilt(Tail(toks), records)

\* the rebuilt sentence of a Sentence Result
RebuiltOf(value) ==
    Rebuilt(findall_tokens(value.original_sentence), value.word_transformations)

\* C19: the sentence given to generate_final_text is the rebuilt sentence
\* (the transformed word tokens and the unchanged non-word runs concatenated
\* in original order), and when it has fewer than 3 whitespace-delimited
\* tokens the composition service is not called and transformed_sentence is
\* the rebuilt sentence.
C19_ShortSentenceSkipsComposer ==
    SentenceDone =>
        /\ composed.ran
        /\ composed.rebuilt = RebuiltOf(result.value)
        /\ split_count(composed.rebuilt) < 3 =>
             /\ composed.calls = <<>>
             /\ result.value.transformed_sentence = RebuiltOf(result.value)

\* hybrid_haze has returned for "sun dog": the rebuilt sentence has two
\* tokens and the composition service was not called
C19_Witness ==
    /\ SentenceDone
    /\ result.op = "hybrid_haze"
    /\ split_count(composed.rebuilt) = 2
    /\ composed.calls = <<>>
    /\ result.value.transformed_sentence # result.value.original_sentence

\* C20: any failure of the composition service (a missing API key included)
\* is caught: haze and hybrid_haze then return transformed_sentence equal to
\* the uncomposed rebuilt sentence; and the service is called at most once
\* per sentence, whose answer, when it gives one, is the transformed_sentence.
C20_ComposerFailureFallsBack ==
    SentenceDone =>
        /\ Len(composed.calls) <= 1
        /\ \A k \in 1..Len(composed.calls) :
             result.value.transformed_sentence
               = IF composed.calls[k].ok THEN composed.calls[k].text
                 ELSE RebuiltOf(result.value)

\* haze has returned the rebuilt sentence of three tokens after the one
\* call of the composition service raised
C20_Witness ==
    /\ SentenceDone
    /\ result.op = "haze"
    /\ composed.calls = <<Raises>>
    /\ split_count(result.value.transformed_sentence) >= 3
    /\ result.value.transformed_sentence = composed.rebuilt

(***************************************************************************)
(* Properties of the functions applied on their own (FunctionsSpec)        *)
(***************************************************************************)
\* simple_translate was applied to a word while the service was failing
TranslateFailedOver ==
    pc = "applied" /\ call.op = "simple_translate" /\ ~call.answer.ok

\* the key under which the built-in dictionary holds the word of the call
DictionaryKey ==
    [from |-> lower_name(call.from_lang), to |-> lower_name(call.to_lang),
     word |-> lower(call.word)]

\* C14: simple_translate never raises; when the translation service fails
\* it returns the built-in dictionary entry if the lowercased pair of
\* languages and the lowercased word are in the built-in dictionary, and
\* otherwise exactly "[untranslated: <word>]" for the word as given.
C14_TranslateFallsBackToDictionaryOrMarker ==
    /\ pc = "applied" /\ call.op = "simple_translate" => ~result.raised
    /\ TranslateFailedOver =>
         IF DictionaryKey \in translations
         THEN result.value = translation_of(DictionaryKey)
         ELSE result.value =
                  <<"[","u","n","t","r","a","n","s","l","a","t","e","d",":"," ">>
                  \o call.word \o <<"]">>

\* the service failed over "Agua" from "Spanish" to "French", and the
\* dictionary entry "eau" of "agua" came back
C14_Witness ==
    /\ TranslateFailedOver
    /\ call.word = <<"A","g","u","a">>
    /\ call.from_lang = "Spanish" /\ call.to_lang = "French"
    /\ result.value = <<"e","a","u">>

\* find_most_similar_word was applied with force_fuzzy
FinderExcluded ==
    pc = "applied" /\ call.op = "find_most_similar_word" /\ call.force_fuzzy

\* the words of the vocabulary of the call
VocabularyWords == {call.word_list[k] : k \in DOMAIN call.word_list}

\* C15: find_most_similar_word(target, vocab, force_fuzzy=True) never
\* returns a word that equals target case-insensitively, for every
\* vocabulary that contains target plus at least one other word.
C15_NeverReturnsTarget ==
    FinderExcluded /\ call.target_word \in VocabularyWords
                   /\ VocabularyWords # {call.target_word}
    => lower(result.value.match) # lower(call.target_word)

\* the vocabulary held "a", its variant "A" and "b"; "b" was returned for "a"
C15_Witness ==
    /\ FinderExcluded
    /\ call.target_word = <<"a">>
    /\ VocabularyWords = {<<"a">>, <<"A">>, <<"b">>}
    /\ result.value.match = <<"b">>

\* find_most_similar_word was applied
FinderApplied == pc = "applied" /\ call.op = "find_most_similar_word"

\* the positions of the vocabulary the search does not skip
Candidates ==
    {k \in DOMAIN call.word_list :
        ~(call.force_fuzzy
          /\ lower(call.word_list[k]) = lower(call.target_word))}

\* the phonetic distance of the target to each entry of the vocabulary
Distances ==
    [k \in DOMAIN call.word_list |->
        phonetic_distance(call.target_word, call.word_list[k])]

\* the candidates no other candidate is nearer than, under distances d
Nearest(d) == {k \in Candidates : \A j \in Candidates : ~frac_lt(d[j], d[k])}

\* the earliest of the nearest candidates
Earliest(d) == CHOOSE k \in Nearest(d) : \A j \in Nearest(d) : k <= j

\* C16: find_most_similar_word returns the earliest entry in vocabulary
\* order among the non-excluded entries whose phonetic distance to the
\* target is minimal (ties keep the first-seen candidate), and the returned
\* similarity is 1 minus that minimal distance.
C16_EarliestNearestCandidate ==
    FinderApplied /\ Candidates # {}
    => \A d \in {Distances} :
          /\ result.value.match = call.word_list[Earliest(d)]
          /\ result.value.similarity = frac_sub(One, d[Earliest(d)])

\* two different entries were equally near the target and nearer than the
\* rest, and the one that comes first was returned
C16_Witness ==
    /\ FinderApplied
    /\ \E d \in {Distances} :
          /\ Nearest(d) # Candidates
          /\ \E j, k \in Nearest(d) :
                /\ j < k
                /\ call.word_list[j] # call.word_list[k]
                /\ \A n \in Nearest(d) : j <= n
                /\ result.value.match = call.word_list[j]

\* the tokenizer was applied to a sentence
Tokenized == pc = "applied" /\ call.op = "findall"

RECURSIVE Concatenation(_)
\* the tokens one after another
Concatenation(items) ==
    IF items = <<>> THEN <<>> ELSE Head(items) \o Concatenation(Tail(items))

\* C17: tokenization is lossless: for every sentence, concatenating all the
\* tokens the tokenizer produced (word tokens and non-word runs) in order,
\* with no transformation applied, reproduces the sentence exactly.
C17_TokenizationIsLossless ==
    Tokenized => /\ Concatenation(result.value.words) = call.sentence
                 /\ result.value.joined = call.sentence

\* a sentence of a word, a run of non-word characters and a word came back
\* as three tokens
C17_Witness ==
    /\ Tokenized
    /\ Len(result.value.words) = 3
    /\ is_word_token(result.value.words[1])
    /\ ~is_word_token(result.value.words[2])
    /\ is_word_token(result.value.words[3])

(***************************************************************************)
(* Properties of rehaze, of the vocabularies and of the entry points       *)
(***************************************************************************)
\* rehaze has returned from a call with similarity_threshold = 0.0 and
\* max_iterations >= 3
RehazeDoneAtZero ==
    /\ RehazeDone
    /\ result.value.parameters.similarity_threshold = Zero
    /\ result.value.parameters.max_iterations >= 3

\* C21: rehaze called with similarity_threshold = 0.0 (and max_iterations
\* >= 3) converges within 2 iterations: total_iterations <= 2 and converged
\* is true.
C21_ZeroThresholdConverges ==
    RehazeDoneAtZero =>
        /\ result.value.total_iterations <= 2
        /\ result.value.converged

\* rehaze returned from such a call: the first iteration, whose similarity
\* is 0.0, reached the threshold
C21_Witness ==
    /\ RehazeDoneAtZero
    /\ result.value.total_iterations = 1
    /\ result.value.iterations[1].similarity_to_previous = Zero
    /\ result.value.converged

\* C26: rehaze feeds each output back as the next input: the input_text of
\* iteration 1 is initial_text, the input_text of every later iteration is
\* the cleaned output_text of the iteration just before it, and the
\* iteration indices are 1, 2, ..., total_iterations with no gap.
C26_OutputFedBack ==
    RehazeDone =>
        LET its == result.value.iterations
        IN /\ result.value.total_iterations = Len(its)
           /\ Len(its) >= 1 => its[1].input_text = result.value.initial_text
           /\ \A k \in 2..Len(its) : its[k].input_text = its[k - 1].output_text
           /\ \A k \in 1..Len(its) : its[k].iteration = k

\* rehaze ran three iterations, and the first changed the text it was given
C26_Witness ==
    /\ RehazeDone
    /\ result.value.total_iterations = 3
    /\ result.value.iterations[1].output_text # result.value.initial_text
    /\ result.value.iterations[2].input_text # result.value.initial_text

\* C27: whenever rehaze stops because the last recorded iteration has
\* similarity_to_previous >= similarity_threshold, the result has converged
\* = true, also when that iteration is iteration number max_iterations; so
\* converged = false implies that no recorded iteration reached the
\* threshold.
C27_ThresholdReachedIsConverged ==
    RehazeDone =>
        LET v == result.value
            n == Len(v.iterations)
        IN /\ (n >= 1 /\ Reached(v, n)) => v.converged
           /\ ~v.converged => \A k \in 1..n : ~Reached(v, k)

\* the two requests loaded the same language at the same time, each found
\* it absent from the cache, and both calls have returned
BothLoadedFirst ==
    /\ DOMAIN threads = Threads
    /\ threads[1].language = threads[2].language
    /\ \A t \in Threads : threads[t].missed /\ threads[t].pc = "returned"

\* C23: when two first-time load_word_list calls for the same language run
\* concurrently on the shared Hazer, they do not both perform the network
\* fetch, and both return the one vocabulary that ends up in the cache.
C23_LoadOncePerKey ==
    BothLoadedFirst =>
        /\ ~(\A t \in Threads : threads[t].fetches > 0)
        /\ cached(word_lists, threads[1].language)
        /\ \A t \in Threads : threads[t].words = word_lists[threads[t].language]

\* the encoders were applied to a word
Encoded == pc = "applied" /\ call.op = "encode"

\* C22: for every word w, including the empty word, soundex(w) has length
\* exactly 4 and metaphone_simple(w) has length at most 6.
C22_CodeLengths ==
    Encoded => /\ Len(result.value.soundex) = 4
               /\ Len(result.value.metaphone_simple) <= 6

\* "strengths", whose codes are cut: S365 of S36532, STRNGT of STRNGTHS
C22_Witness ==
    /\ Encoded
    /\ call.word = <<"s","t","r","e","n","g","t","h","s">>
    /\ result.value.soundex = <<"S","3","6","5">>
    /\ result.value.metaphone_simple = <<"S","T","R","N","G","T">>

\* C25: in metaphone_simple a consonant is emitted only if it differs from
\* the immediately preceding emitted character, so the articulatory code of
\* a word never contains two equal adjacent characters; and a vowel can
\* appear only as the first character of the code.
C25_NoRepeatedCharacter ==
    Encoded =>
        LET code == result.value.metaphone_simple
        IN /\ \A k \in 2..Len(code) : code[k] # code[k - 1]
           /\ \A k \in 2..Len(code) : code[k] \notin {"A", "E", "I", "O", "U"}

\* load_word_list was applied and returned a vocabulary
Loaded == pc = "applied" /\ call.op = "load_word_list" /\ ~result.raised

\* the tier the vocabulary came from: the last one attempted
LoadedFrom == result.value.tiers[Len(result.value.tiers)].tier

\* C24: every entry of every vocabulary returned by load_word_list, from any
\* tier including the embedded fallback lists, is a non-empty lowercase
\* string of alphabetic characters only (no spaces or punctuation); entries
\* from the two network tiers additionally have length 1 to 25.
C24_VocabularyEntries ==
    Loaded =>
        \A k \in 1..Len(result.value.words) :
            LET word == result.value.words[k]
            IN /\ word # <<>>
               /\ isalpha(word)
               /\ lower(word) = word
               /\ LoadedFrom \in {"frequency", "online"}
                    => Len(word) >= 1 /\ Len(word) <= MaxWordLen

\* phonetic_distance was applied to two words
Measured == pc = "applied" /\ call.op = "phonetic_distance"

\* x lies between 0 and 1
InUnit(x) == ~frac_lt(x, Zero) /\ ~frac_lt(One, x)

\* the three similarities and the length penalty of the two words of the
\* call, in the order of the formula
Parts ==
    LET w1 == lower(call.word1)
        w2 == lower(call.word2)
        longer == IF Len(w1) >= Len(w2) THEN Len(w1) ELSE Len(w2)
    IN <<ratio(soundex(w1), soundex(w2)),
         ratio(metaphone_simple(w1), metaphone_simple(w2)),
         ratio(w1, w2),
         Frac(IF Len(w1) >= Len(w2) THEN Len(w1) - Len(w2) ELSE Len(w2) - Len(w1),
              IF longer >= 1 THEN longer ELSE 1)>>

\* 0.4 * p[1] + 0.4 * p[2] + 0.2 * p[3] - 0.1 * p[4], in tenths
Tenths(p) ==
    frac_sub(frac_add(frac_add(frac_mul(Frac(4, 1), p[1]), frac_mul(Frac(4, 1), p[2])),
                      frac_mul(Frac(2, 1), p[3])),
             p[4])

\* C29: for every pair of words, phonetic_distance(a, b) equals
\* 1 - (0.4*soundex_sim + 0.4*metaphone_sim + 0.2*string_sim
\*      - 0.1*length_penalty) with each similarity in [0,1] and the length
\* penalty in [0,1], so the distance is never negative and never exceeds
\* 1.1, and phonetic_distance(w, w) is 0 for every word w.
C29_DistanceFormulaAndRange ==
    Measured =>
        \A p \in {Parts} :
            /\ \A k \in 1..4 : InUnit(p[k])
            /\ frac_mul(Frac(10, 1), frac_sub(One, result.value)) = Tenths(p)
            /\ ~frac_lt(result.value, Zero)
            /\ ~frac_lt(Frac(11, 10), result.value)
            /\ call.word1 = call.word2 => result.value = Zero

\* two words of different lengths that share a part of their codes: the
\* penalty counts and the distance lies strictly between 0 and 1
C29_Witness ==
    /\ Measured
    /\ call.word1 = <<"s","u","n">>
    /\ call.word2 = <<"s","t","r","e","n","g","t","h","s">>
    /\ frac_lt(Zero, result.value)
    /\ frac_lt(result.value, One)

\* no record of the sequence is one of the hybrid strategy
NoHybridRecord(records) ==
    \A k \in 1..Len(records) : "fallback_used" \notin DOMAIN records[k]

\* C28 (each word): with any method other than "fuzzy", "hybrid" and unknown
\* values included, haze runs the translate strategy without fallback: the
\* transformed word is what simple_translate returned for the language-B
\* match, and the record carries the method as given and no fallback_used.
C28_Word ==
    TranslateWordDone =>
        /\ Len(said.asked) = 1
        /\ LatestRecord.transformed = SaidTranslation
        /\ LatestRecord.chain = <<said.word, SaidMatch, SaidTranslation>>
        /\ LatestRecord.method = call.method
        /\ NoHybridRecord(word_details)

\* C28: haze treats every method value other than "fuzzy" (including
\* "hybrid" and unknown values) as the translate strategy without fallback,
\* and echoes the method value unchanged in the result and in each record;
\* the hybrid translate-then-fuzzy-fallback strategy is reachable only
\* through hybrid_haze, whose records alone carry fallback_used.
C28_MethodEchoedNeverHybrid ==
    /\ []C28_Word
    /\ [][call.op = "haze" /\ pc' = "done" /\ ~result'.raised
          => /\ result'.value.method = call.method
             /\ \A k \in 1..Len(result'.value.word_transformations) :
                   result'.value.word_transformations[k].method = call.method
             /\ NoHybridRecord(result'.value.word_transformations)]_vars

\* haze was called with method "hybrid", the translation service echoed the
\* match, and the word became that echo: no fuzzy fallback ran
C28_Witness ==
    /\ TranslateWordDone
    /\ call.method = "hybrid"
    /\ said.asked[1].ok /\ said.asked[1].echo
    /\ LatestRecord.transformed = SaidMatch
    /\ LatestRecord.method = "hybrid"

\* process_text was applied to a text
Processed == pc = "applied" /\ call.op = "process_text"

\* C30: process_text never raises: for a blank text it returns the error
\* "Empty text provided", and for every non-blank text it returns the
\* english -> spanish -> english hybrid transformation result rather than an
\* error result.
C30_ProcessTextTransforms ==
    Processed =>
        /\ ~result.raised
        /\ strip(call.text) = <<>> => result.value = [error |-> "Empty text provided"]
        /\ strip(call.text) # <<>> => "error" \notin DOMAIN result.value

====
